---- MODULE Spec2Model ----
(***************************************************************************)
(* Model of students/setup.py: the one-shot workstation provisioning       *)
(* script.  A run of install_all is a sequence of stages (workspace        *)
(* confirmation, IDE installer, extension stage, settings merge); every    *)
(* stage is one action that performs the whole Python function.  The host  *)
(* (platform, PATH, application folder, network answers, subprocess exit   *)
(* codes, settings file) is the environment; its answers are drawn from    *)
(* small sets.  A Python exception leaving a function is the return token  *)
(* "raise".                                                                *)
(***************************************************************************)
EXTENDS Integers, Sequences, FiniteSets, TLC

\* ------------------------------------------------------------------------
\* Bounds
\* ------------------------------------------------------------------------

\* Number of times the script is started on the same machine.
MaxRuns == 2

\* ------------------------------------------------------------------------
\* Program constants
\* ------------------------------------------------------------------------

AUTOINSTALLED_VSCODE_EXTENSIONS == <<"ms-python.python", "ms-vsliveshare.vsliveshare">>

AUTOFORMAT_VSCODE_EXTENSIONS == <<"ms-python.autopep8", "ms-python.black-formatter">>

TypeCheckingKey == "python.analysis.typeCheckingMode"

\* JSON / Python values are pairs <<type, text>>.
JStr(s) == <<"str", s>>
JNum(s) == <<"num", s>>
JBool(s) == <<"bool", s>>
PyNone == <<"null", "">>

RECOMMENDED_VSCODE_SETTINGS == [k \in {TypeCheckingKey} |-> JStr("strict")]

\* Python's None for the cached path, and the two places the binary can be.
NoPath == "None"
PathCode == "/usr/bin/code"
MacBinaryPath == "~/Applications/Visual Studio Code.app/Contents/Resources/app/bin/code"

\* ------------------------------------------------------------------------
\* Python value semantics
\* ------------------------------------------------------------------------

\* bool(v): the truth value Python gives a JSON value.
Truthy(v) ==
    CASE v[1] = "str" -> v[2] # ""
      [] v[1] = "num" -> v[2] # "0"
      [] v[1] = "bool" -> v[2] = "true"
      [] OTHER -> FALSE

\* The number a bool or a number compares as.
NumText(v) == IF v[1] = "bool" THEN (IF v[2] = "true" THEN "1" ELSE "0") ELSE v[2]

\* a == b in Python: bool is a subclass of int, so True == 1 and False == 0.
PyEq(a, b) ==
    IF a[1] \in {"num", "bool"} /\ b[1] \in {"num", "bool"}
    THEN NumText(a) = NumText(b)
    ELSE a = b

\* str(v) as an f-string formats it.
PyFormat(v) == v[2]

\* ------------------------------------------------------------------------
\* The host
\* ------------------------------------------------------------------------

Systems == {"Linux", "Darwin", "Windows", "FreeBSD"}
Distros == {"ubuntu", "debian", "rhel", "fedora", "arch"}
NoDistro == "n/a"

\* What the releases endpoint can answer: the fetch fails, the payload is
\* empty, the payload is not JSON, or it is a JSON value.  A JSON value is
\* [type, items]: the elements of a list, the characters of a string.
JList(items) == [type |-> "list", items |-> items]
JText(chars) == [type |-> "str", items |-> chars]
JOther(t) == [type |-> t, items |-> <<>>]

ManifestValues ==
    { JList(<<JStr("1.90.0"), JStr("1.89.1")>>),
      JList(<<>>),
      JList(<<JNum("1")>>),
      JText(<<JStr("a"), JStr("b")>>),
      JText(<<>>),
      JOther("num"),
      JOther("obj"),
      JOther("null") }

Response(kind, value) == [kind |-> kind, value |-> value]

ManifestResponses ==
    { Response("urlerror", JOther("null")),
      Response("empty", JOther("null")),
      Response("notjson", JOther("null")) }
    \cup { Response("json", v) : v \in ManifestValues }

ArtifactResponses == {"urlerror", "empty", "ok"}

ExitCodes == {0, 1}

\* The settings file: absent, not a JSON object, or a JSON object.
OtherKey == "editor.fontSize"
SettingKeys == {TypeCheckingKey, OtherKey}
SettingValues ==
    { JStr("strict"), JStr("basic"), JStr(""), JBool("false"), JNum("0"), PyNone }
SettingsObjects == UNION { [D -> SettingValues] : D \in SUBSET SettingKeys }
EmptyObject == [k \in {} |-> PyNone]

FileAbsent == [state |-> "absent", obj |-> EmptyObject]
FileBroken == [state |-> "broken", obj |-> EmptyObject]
FileWith(obj) == [state |-> "object", obj |-> obj]

\* The files a run can find: every value under the recommended key, and an
\* unrelated key next to an absent, a conflicting and a matching one.
InitialFiles ==
    { FileAbsent, FileBroken }
    \cup { FileWith(o) : o \in { s \in SettingsObjects :
              OtherKey \in DOMAIN s =>
                  /\ s[OtherKey] = JNum("0")
                  /\ TypeCheckingKey \in DOMAIN s =>
                        s[TypeCheckingKey] \in {JStr("strict"), JStr("basic"), JBool("false")} } }

\* The extensions a machine can have before the first run.
InitialExtensions ==
    SUBSET ({ AUTOINSTALLED_VSCODE_EXTENSIONS[i] : i \in 1..Len(AUTOINSTALLED_VSCODE_EXTENSIONS) }
            \cup {AUTOFORMAT_VSCODE_EXTENSIONS[1]})

AllExtensions ==
    { AUTOINSTALLED_VSCODE_EXTENSIONS[i] : i \in 1..Len(AUTOINSTALLED_VSCODE_EXTENSIONS) }
    \cup { AUTOFORMAT_VSCODE_EXTENSIONS[i] : i \in 1..Len(AUTOFORMAT_VSCODE_EXTENSIONS) }

\* ------------------------------------------------------------------------
\* State
\* ------------------------------------------------------------------------
VARIABLES
    system,         \* platform.system()
    distro,         \* platform.freedesktop_os_release()['ID']
    onPath,         \* shutil.which('code') finds the binary
    macApp,         \* ~/Applications/Visual Studio Code.app: "none", "nobinary", "binary"
    installed,      \* extensions the editor has installed
    file,           \* .vscode/settings.json
    dirExists,      \* .vscode is a directory
    run,            \* number of the current run of the script
    pc,             \* position in install_all
    yes,            \* the --yes flag
    cachedPath,     \* _g_cached_vscode_path
    fetches,        \* urlopen calls that went to the network, in order
    urlCalls,       \* calls of vscode_download_url
    tempfiles,      \* suffixes of the temporary files written
    subprocs,       \* subprocess.run calls started, in order
    idePresent,     \* the IDE was on the machine when maybe_install_vscode was called
    installRet,     \* what maybe_install_vscode returned
    extRet,         \* what maybe_install_vscode_extensions returned
    settingsRet,    \* what setup_vscode_settings returned
    manifest,       \* the answer of the releases endpoint
    requested,      \* the list passed to maybe_install_vscode_extensions
    listed,         \* the set get_existing_vscode_extensions returned
    fileBefore,     \* the settings file when setup_vscode_settings started
    warned,         \* keys setup_vscode_settings warned about
    wrote,          \* setup_vscode_settings wrote the file
    madeDir,        \* setup_vscode_settings created the directory
    printed         \* banners install_all printed, in order

hostVars == <<system, distro, onPath, macApp, installed, file, dirExists>>
procVars == <<run, pc, yes, cachedPath, fetches, urlCalls, tempfiles, subprocs, idePresent,
              installRet, extRet, settingsRet, manifest, requested, listed,
              fileBefore, warned, wrote, madeDir, printed>>
vars == <<hostVars, procVars>>

NotCalled == "none"
NoManifest == Response("none", JOther("null"))

\* ------------------------------------------------------------------------
\* Platform resolver
\* ------------------------------------------------------------------------

EmptyUrl == <<>>
UpdateHost == "https://update.code.visualstudio.com"
ManifestUrl == <<UpdateHost, "api", "releases", "stable">>

\* vscode_download_url(version): '' for a platform it does not know.
vscode_download_url(sys, id, version) ==
    CASE sys = "Linux" ->
            (CASE id \in {"ubuntu", "debian"} -> <<UpdateHost, version, "linux-deb-x64", "stable">>
               [] id \in {"rhel", "fedora"} -> <<UpdateHost, version, "linux-rpm-x64", "stable">>
               [] OTHER -> EmptyUrl)
      [] sys = "Darwin" -> <<UpdateHost, version, "darwin-universal", "stable">>
      [] sys = "Windows" -> <<UpdateHost, version, "win32-x64-user", "stable">>
      [] OTHER -> EmptyUrl

\* vscode_file_extension()
vscode_file_extension(sys, id) ==
    CASE sys = "Linux" ->
            (CASE id \in {"ubuntu", "debian"} -> ".deb"
               [] id \in {"rhel", "fedora"} -> ".rpm"
               [] OTHER -> "")
      [] sys = "Darwin" -> ".zip"
      [] sys = "Windows" -> ".exe"
      [] OTHER -> ""

\* ------------------------------------------------------------------------
\* Cached path
\* ------------------------------------------------------------------------

\* shutil.which('code')
Which(isOnPath) == IF isOnPath THEN PathCode ELSE NoPath

\* maybe_vscode_cmd(): the value returned, which is also the new value of
\* the cache.
maybe_vscode_cmd(cache, isOnPath) ==
    IF cache # NoPath /\ cache # "" THEN cache ELSE Which(isOnPath)

\* ------------------------------------------------------------------------
\* Installer
\* ------------------------------------------------------------------------

\* versions[0]: the element, or the exception indexing raises.
Subscript0(v) ==
    IF v.type \in {"list", "str"}
    THEN (IF Len(v.items) > 0
          THEN [raised |-> FALSE, elem |-> v.items[1]]
          ELSE [raised |-> TRUE, elem |-> PyNone])
    ELSE [raised |-> TRUE, elem |-> PyNone]

Proc(argv, rc) == [argv |-> argv, rc |-> rc]

InstallResult(ret, cache, fetched, urls, temps, procs, path, app) ==
    [ret |-> ret, cachedPath |-> cache, fetches |-> fetched, urlCalls |-> urls,
     tempfiles |-> temps, subprocs |-> procs, onPath |-> path, macApp |-> app]

\* The install step of maybe_install_vscode, after the artifact is on disk.
PlatformInstall(sys, id, app, fetched, temp, rc, pathAfter) ==
    LET downloaded_path == "tmp" \o temp
        done(ret, cache, procs, path, newApp) ==
            InstallResult(ret, cache, fetched, 1, <<temp>>, procs, path, newApp)
        byInstaller(argv) ==
            done(IF rc = 0 THEN "True" ELSE "False", NoPath, <<Proc(argv, rc)>>,
                 rc = 0 /\ pathAfter, app)
    IN  CASE sys = "Linux" ->
                (CASE id \in {"ubuntu", "debian"} ->
                        byInstaller(<<"sudo", "apt", "install", "-y", downloaded_path>>)
                   [] id \in {"rhel", "fedora"} ->
                        byInstaller(<<"sudo", "dnf", "install", "-y", downloaded_path>>)
                   [] OTHER -> done("False", NoPath, <<>>, FALSE, app))
          [] sys = "Windows" -> byInstaller(<<downloaded_path>>)
          [] sys = "Darwin" ->
                (CASE app = "binary" -> done("True", MacBinaryPath, <<>>, FALSE, app)
                   [] app = "nobinary" -> done("False", NoPath, <<>>, FALSE, app)
                   [] OTHER ->
                        done(IF rc = 0 THEN "True" ELSE "False",
                             IF rc = 0 THEN MacBinaryPath ELSE NoPath,
                             <<Proc(<<"unzip", downloaded_path, "-d", "~/Applications">>, rc)>>,
                             FALSE,
                             IF rc = 0 THEN "binary" ELSE app))
          [] OTHER -> done("False", NoPath, <<>>, FALSE, app)

\* maybe_install_vscode(): logger.fatal only writes a log record, so the
\* two isinstance checks do not stop the function.
maybe_install_vscode(cache, isOnPath, app, sys, id, resp, artifact, rc, pathAfter) ==
    LET found == maybe_vscode_cmd(cache, isOnPath)
        stop(ret, fetched, urls) ==
            InstallResult(ret, found, fetched, urls, <<>>, <<>>, isOnPath, app)
    IN  IF found # NoPath THEN stop("True", <<>>, 0)
        ELSE IF resp.kind = "urlerror" THEN stop("raise", <<ManifestUrl>>, 0)
        ELSE IF resp.kind = "empty" THEN stop("False", <<ManifestUrl>>, 0)
        ELSE IF resp.kind = "notjson" THEN stop("raise", <<ManifestUrl>>, 0)
        ELSE LET versions == resp.value
                 first == Subscript0(versions)
             IN  IF first.raised THEN stop("raise", <<ManifestUrl>>, 0)
                 ELSE LET url == vscode_download_url(sys, id, PyFormat(first.elem))
                      IN  IF url = EmptyUrl THEN stop("raise", <<ManifestUrl>>, 1)
                          ELSE IF artifact = "urlerror"
                               THEN stop("raise", <<ManifestUrl, url>>, 1)
                          ELSE IF artifact = "empty"
                               THEN stop("False", <<ManifestUrl, url>>, 1)
                          ELSE PlatformInstall(sys, id, app, <<ManifestUrl, url>>,
                                               vscode_file_extension(sys, id), rc, pathAfter)

\* ------------------------------------------------------------------------
\* Extension stage
\* ------------------------------------------------------------------------

\* set(output.stdout.split('\n')): every line of the output, and the empty
\* string that follows the last newline (or is the whole of an empty output).
SplitLines(lines) == lines \cup {""}

\* A stage that reinstalls everything it is asked for.
MissingExtensionsUnfiltered(extensions, installed_extensions) == extensions

\* The loop of lines 256-259: the requested extensions that are not in the
\* installed set, in the order of the request.
MissingExtensions(extensions, installed_extensions) ==
    SelectSeq(extensions, LAMBDA ext : ext \notin installed_extensions)

\* The loop of lines 266-269: one install_extension call per element, up to
\* and including the first one that exits non-zero (failAt, 0 for none).
InstallCalls(cmd, exts, failAt) ==
    [i \in 1..(IF failAt = 0 THEN Len(exts) ELSE failAt) |->
        Proc(<<cmd, "--install-extension", exts[i]>>, IF i = failAt THEN 1 ELSE 0)]

ExtensionResult(ret, cache, procs, seen, nowInstalled) ==
    [ret |-> ret, cachedPath |-> cache, subprocs |-> procs, listed |-> seen,
     installed |-> nowInstalled]

\* maybe_install_vscode_extensions(extensions).  subprocess.run raises
\* TypeError before starting anything when vscode_cmd() returned None.
maybe_install_vscode_extensions(cache, isOnPath, extensions, hostInstalled, listRc, stdout, failAt) ==
    LET cmd == maybe_vscode_cmd(cache, isOnPath)
    IN  IF cmd = NoPath
        THEN ExtensionResult("raise", cmd, <<>>, {}, hostInstalled)
        ELSE LET installed_extensions == SplitLines(stdout)
                 exts == MissingExtensions(extensions, installed_extensions)
                 list == Proc(<<cmd, "--list-extensions">>, listRc)
                 calls == InstallCalls(cmd, exts, failAt)
                 succeeded == { exts[i] : i \in { j \in 1..Len(calls) : calls[j].rc = 0 } }
             IN  IF exts = <<>>
                 THEN ExtensionResult("True", cmd, <<list>>, installed_extensions,
                                      hostInstalled)
                 ELSE ExtensionResult(IF failAt = 0 THEN "True" ELSE "False", cmd,
                                      <<list>> \o calls, installed_extensions,
                                      hostInstalled \cup succeeded)

\* ------------------------------------------------------------------------
\* Settings merge
\* ------------------------------------------------------------------------

\* settings.get(setting, None)
DictGet(settings, setting) ==
    IF setting \in DOMAIN settings THEN settings[setting] ELSE PyNone

\* The body of the loop of lines 292-302 for one recommended pair:
\* "warn" (continue after the warning), "same" (continue), "set".
MergeStep(settings, setting, val) ==
    LET existing_setting == DictGet(settings, setting)
    IN  IF Truthy(existing_setting) /\ ~PyEq(existing_setting, val) THEN "warn"
        ELSE IF PyEq(existing_setting, val) THEN "same"
        ELSE "set"

\* A merge that writes the recommended settings alone.
MergedSettingsDropExisting(settings, recommended) ==
    [k \in DOMAIN recommended |-> recommended[k]]

\* The dictionary after the loop.
MergedSettings(settings, recommended) ==
    LET assigned == { k \in DOMAIN recommended : MergeStep(settings, k, recommended[k]) = "set" }
    IN  [k \in DOMAIN settings \cup assigned |->
            IF k \in assigned THEN recommended[k] ELSE settings[k]]

SettingsResult(ret, newFile, dir, warnings, written, mkdir) ==
    [ret |-> ret, file |-> newFile, dirExists |-> dir, warned |-> warnings,
     wrote |-> written, madeDir |-> mkdir]

\* setup_vscode_settings(path)
setup_vscode_settings(f, dir) ==
    IF f.state = "broken"
    THEN SettingsResult("raise", f, dir, {}, FALSE, FALSE)
    ELSE LET settings == IF f.state = "object" THEN f.obj ELSE EmptyObject
             recommended == RECOMMENDED_VSCODE_SETTINGS
             warnings == { k \in DOMAIN recommended :
                             MergeStep(settings, k, recommended[k]) = "warn" }
             didChange == \E k \in DOMAIN recommended :
                             MergeStep(settings, k, recommended[k]) = "set"
         IN  IF didChange
             THEN SettingsResult("None", FileWith(MergedSettings(settings, recommended)),
                                 TRUE, warnings, TRUE, ~dir)
             ELSE SettingsResult("None", f, dir, warnings, FALSE, FALSE)

\* ------------------------------------------------------------------------
\* Prompts
\* ------------------------------------------------------------------------

FormatterAnswers == {"", "1", "2", "3"}
NoFormatter == ""

\* query_auto_formatter(), for the first answer it accepts.
query_auto_formatter(choice) ==
    LET idx == CASE choice = "1" -> 0 [] choice = "2" -> 1 [] OTHER -> 2
    IN  IF choice = "" THEN NoFormatter
        ELSE IF idx >= Len(AUTOFORMAT_VSCODE_EXTENSIONS) THEN NoFormatter
        ELSE AUTOFORMAT_VSCODE_EXTENSIONS[idx + 1]

\* ------------------------------------------------------------------------
\* Initial state
\* ------------------------------------------------------------------------

FreshProcess ==
    /\ pc = "start"
    /\ cachedPath = NoPath
    /\ fetches = <<>>
    /\ urlCalls = 0
    /\ tempfiles = <<>>
    /\ subprocs = <<>>
    /\ idePresent = NotCalled
    /\ installRet = NotCalled
    /\ extRet = NotCalled
    /\ settingsRet = NotCalled
    /\ manifest = NoManifest
    /\ requested = <<>>
    /\ listed = {}
    /\ warned = {}
    /\ wrote = FALSE
    /\ madeDir = FALSE
    /\ printed = <<>>

Init ==
    /\ system \in Systems
    /\ distro \in (IF system = "Linux" THEN Distros ELSE {NoDistro})
    /\ onPath \in BOOLEAN
    /\ macApp \in (IF system = "Darwin" THEN {"none", "nobinary", "binary"} ELSE {"none"})
    /\ installed \in InitialExtensions
    /\ file \in InitialFiles
    /\ dirExists \in (IF file.state = "absent" THEN BOOLEAN ELSE {TRUE})
    /\ run = 1
    /\ yes \in BOOLEAN
    /\ fileBefore = file
    /\ FreshProcess

\* ------------------------------------------------------------------------
\* install_all
\* ------------------------------------------------------------------------

\* The IDE is on the machine: its binary is on the path or, on macOS, in the
\* user's application folder.
IdeOnMachine == onPath \/ (system = "Darwin" /\ macApp = "binary")

\* The environment answers only what the program asks: a request that is
\* never made has one (unread) answer.
Unasked == "unasked"

\* Lines 383-390: the workspace confirmation.
ConfirmWorkspace ==
    /\ pc = "start"
    /\ \E answer \in BOOLEAN :
          IF yes
          THEN /\ printed' = Append(printed, "check skipped")
               /\ pc' = "installer"
          ELSE IF answer
               THEN /\ printed' = printed
                    /\ pc' = "installer"
               ELSE /\ printed' = Append(printed, "bye")
                    /\ pc' = "done"
    /\ UNCHANGED <<hostVars, run, yes, cachedPath, fetches, urlCalls, tempfiles, subprocs,
                   idePresent, installRet, extRet, settingsRet, manifest, requested, listed,
                   fileBefore, warned, wrote, madeDir>>

\* Lines 392-400: the installer stage.
InstallerStage ==
    /\ pc = "installer"
    /\ \E resp \in (IF maybe_vscode_cmd(cachedPath, onPath) # NoPath
                     THEN {NoManifest} ELSE ManifestResponses) :
       \E artifact \in (IF resp.kind = "json" THEN ArtifactResponses ELSE {Unasked}) :
       \E rc \in (IF artifact = "ok" THEN ExitCodes ELSE {0}) :
       \E pathAfter \in (IF artifact = "ok" /\ rc = 0 THEN BOOLEAN ELSE {FALSE}) :
          LET r == maybe_install_vscode(cachedPath, onPath, macApp, system, distro,
                                        resp, artifact, rc, pathAfter)
          IN  /\ idePresent' = IF IdeOnMachine THEN "present" ELSE "absent"
              /\ cachedPath' = r.cachedPath
              /\ fetches' = r.fetches
              /\ urlCalls' = r.urlCalls
              /\ tempfiles' = r.tempfiles
              /\ subprocs' = r.subprocs
              /\ onPath' = r.onPath
              /\ macApp' = r.macApp
              /\ installRet' = r.ret
              /\ manifest' = IF r.fetches = <<>> THEN NoManifest ELSE resp
              /\ printed' = CASE r.ret = "True" /\ r.fetches = <<>> ->
                                    printed \o <<"found previous", "installed vscode">>
                              [] r.ret = "True" -> Append(printed, "installed vscode")
                              [] r.ret = "False" -> Append(printed, "failed vscode")
                              [] OTHER -> printed
              /\ pc' = CASE r.ret = "True" -> "extensions"
                         [] r.ret = "False" -> "done"
                         [] OTHER -> "crashed"
    /\ UNCHANGED <<system, distro, installed, file, dirExists, run, yes, extRet,
                   settingsRet, requested, listed, fileBefore, warned, wrote, madeDir>>

\* Lines 402-416: the extension stage.
ExtensionStage ==
    /\ pc = "extensions"
    /\ \E choice \in (IF yes THEN {""} ELSE FormatterAnswers), listRc \in ExitCodes,
          failAt \in 0..(Len(AUTOINSTALLED_VSCODE_EXTENSIONS) + 1) :
          LET formatter == IF yes THEN NoFormatter ELSE query_auto_formatter(choice)
              extensions == IF formatter # NoFormatter
                            THEN Append(AUTOINSTALLED_VSCODE_EXTENSIONS, formatter)
                            ELSE AUTOINSTALLED_VSCODE_EXTENSIONS
              stdout == IF listRc = 0 THEN installed ELSE {}
              r == maybe_install_vscode_extensions(cachedPath, onPath, extensions,
                                                   installed, listRc, stdout, failAt)
          IN  /\ failAt <= Len(MissingExtensions(extensions, SplitLines(stdout)))
              /\ requested' = extensions
              /\ cachedPath' = r.cachedPath
              /\ subprocs' = subprocs \o r.subprocs
              /\ listed' = r.listed
              /\ installed' = r.installed
              /\ extRet' = r.ret
              /\ printed' = CASE r.ret = "True" -> Append(printed, "installed extensions")
                              [] r.ret = "False" -> Append(printed, "failed extensions")
                              [] OTHER -> printed
              /\ pc' = CASE r.ret = "True" -> "settings"
                         [] r.ret = "False" -> "done"
                         [] OTHER -> "crashed"
    /\ UNCHANGED <<system, distro, onPath, macApp, file, dirExists, run, yes, fetches,
                   urlCalls, tempfiles, idePresent, installRet, settingsRet, manifest, fileBefore,
                   warned, wrote, madeDir>>

\* Lines 418-427: the settings merge and the closing banner.
SettingsStage ==
    /\ pc = "settings"
    /\ LET r == setup_vscode_settings(file, dirExists)
       IN  /\ fileBefore' = file
           /\ file' = r.file
           /\ dirExists' = r.dirExists
           /\ warned' = r.warned
           /\ wrote' = r.wrote
           /\ madeDir' = r.madeDir
           /\ settingsRet' = r.ret
           /\ printed' = IF r.ret = "None" THEN Append(printed, "all done") ELSE printed
           /\ pc' = IF r.ret = "None" THEN "done" ELSE "crashed"
    /\ UNCHANGED <<system, distro, onPath, macApp, installed, run, yes, cachedPath,
                   fetches, urlCalls, tempfiles, subprocs, idePresent, installRet, extRet,
                   manifest, requested, listed>>

\* Lines 443-444: the script is started again, in a new process, on the same
\* machine.
NewRun ==
    /\ pc \in {"done", "crashed"}
    /\ run < MaxRuns
    /\ run' = run + 1
    /\ fileBefore' = file
    /\ pc' = "start"
    /\ cachedPath' = NoPath
    /\ fetches' = <<>>
    /\ urlCalls' = 0
    /\ tempfiles' = <<>>
    /\ subprocs' = <<>>
    /\ idePresent' = NotCalled
    /\ installRet' = NotCalled
    /\ extRet' = NotCalled
    /\ settingsRet' = NotCalled
    /\ manifest' = NoManifest
    /\ requested' = <<>>
    /\ listed' = {}
    /\ warned' = {}
    /\ wrote' = FALSE
    /\ madeDir' = FALSE
    /\ printed' = <<>>
    /\ UNCHANGED <<hostVars, yes>>

Next ==
    \/ ConfirmWorkspace
    \/ InstallerStage
    \/ ExtensionStage
    \/ SettingsStage
    \/ NewRun

Spec == Init /\ [][Next]_vars

\* ------------------------------------------------------------------------
\* Observations used by the properties
\* ------------------------------------------------------------------------

IsEditorCall(p, flag) == Len(p.argv) >= 2 /\ p.argv[2] = flag
ListCallsMade == SelectSeq(subprocs, LAMBDA p : IsEditorCall(p, "--list-extensions"))
InstallCallsMade == SelectSeq(subprocs, LAMBDA p : IsEditorCall(p, "--install-extension"))
EditorCallsMade ==
    SelectSeq(subprocs, LAMBDA p : IsEditorCall(p, "--list-extensions")
                                   \/ IsEditorCall(p, "--install-extension"))
InstallerCallsMade ==
    SelectSeq(subprocs, LAMBDA p : ~IsEditorCall(p, "--list-extensions")
                                   /\ ~IsEditorCall(p, "--install-extension"))
InstalledNames == [i \in 1..Len(InstallCallsMade) |-> InstallCallsMade[i].argv[3]]

\* The requested extensions the query did not report, in request order.
ExpectedInstalls == SelectSeq(requested, LAMBDA e : e \notin listed)

IsPrefix(a, b) == Len(a) <= Len(b) /\ \A i \in 1..Len(a) : a[i] = b[i]

\* The settings object the merge started from.
SettingsBefore == IF fileBefore.state = "object" THEN fileBefore.obj ELSE EmptyObject
AbsentRecommended == DOMAIN RECOMMENDED_VSCODE_SETTINGS \ DOMAIN SettingsBefore

UnsupportedPlatform ==
    \/ system \notin {"Linux", "Darwin", "Windows"}
    \/ system = "Linux" /\ distro \notin {"ubuntu", "debian", "rhel", "fedora"}

\* ------------------------------------------------------------------------
\* Properties
\* ------------------------------------------------------------------------

\* C1: a recommended key that the settings file holds with a different value
\* (any JSON value, false, 0, "" and null included) keeps its value, gets a
\* warning, and does not by itself cause the file to be written.
C1_ConflictNeverOverwritten ==
    settingsRet = "None" =>
        \A k \in DOMAIN RECOMMENDED_VSCODE_SETTINGS :
            (k \in DOMAIN SettingsBefore /\ SettingsBefore[k] # RECOMMENDED_VSCODE_SETTINGS[k]) =>
                /\ file.obj[k] = SettingsBefore[k]
                /\ k \in warned
                /\ wrote => AbsentRecommended # {}

\* C2: the directory is created and the file rewritten only if a recommended
\* key was added; otherwise nothing is created or written and the file is as
\* it was.
C2_WriteOnlyWhenKeyAdded ==
    settingsRet # NotCalled =>
        ((wrote \/ madeDir \/ file # fileBefore) => AbsentRecommended # {})

\* C3: when a recommended key is absent from the settings object S (no file
\* counts as the empty object), the file is rewritten with exactly the pairs
\* of S plus every absent recommended key at its recommended value.
C3_AddsMissingKeepsOthers ==
    (settingsRet = "None" /\ AbsentRecommended # {}) =>
        /\ wrote
        /\ dirExists
        /\ file.state = "object"
        /\ DOMAIN file.obj = DOMAIN SettingsBefore \cup AbsentRecommended
        /\ \A k \in DOMAIN SettingsBefore : file.obj[k] = SettingsBefore[k]
        /\ \A k \in AbsentRecommended : file.obj[k] = RECOMMENDED_VSCODE_SETTINGS[k]

\* C3 witness: a file with an unrelated key and without the recommended one
\* has been merged and rewritten.
C3_Witness ==
    /\ settingsRet = "None"
    /\ fileBefore.state = "object"
    /\ OtherKey \in DOMAIN fileBefore.obj
    /\ TypeCheckingKey \notin DOMAIN fileBefore.obj
    /\ wrote

\* C4 as stated: the stage queries the installed set once and issues install
\* calls exactly for the requested extensions that are not installed, in
\* request order.
C4_InstallsExactlyMissing ==
    extRet \in {"True", "False"} =>
        /\ Len(ListCallsMade) = 1
        /\ InstalledNames = ExpectedInstalls

\* C4 amended: the stage starts at most one list-extensions call, exactly one
\* (before any install call) whenever it returns; the install calls are, in
\* request order, a prefix of the requested extensions that are not in the
\* set the query returned: all of them when the stage returns True, up to
\* and including the first call that exits non-zero when it returns False;
\* with nothing missing there is no install call and the result is True.
C4_InstallsMissingUntilFailure ==
    extRet # NotCalled =>
        /\ Len(ListCallsMade) <= 1
        /\ extRet \in {"True", "False"} =>
              /\ Len(ListCallsMade) = 1
              /\ EditorCallsMade[1] = ListCallsMade[1]
        /\ IsPrefix(InstalledNames, ExpectedInstalls)
        /\ \A i \in 1..Len(InstalledNames) : InstalledNames[i] \notin listed
        /\ \A i \in 1..(Len(InstallCallsMade) - 1) : InstallCallsMade[i].rc = 0
        /\ extRet = "True" =>
              /\ InstalledNames = ExpectedInstalls
              /\ \A i \in 1..Len(InstallCallsMade) : InstallCallsMade[i].rc = 0
        /\ extRet = "False" =>
              /\ InstallCallsMade # <<>>
              /\ InstallCallsMade[Len(InstallCallsMade)].rc # 0
        /\ (ExpectedInstalls = <<>> /\ extRet # "raise") =>
              /\ extRet = "True"
              /\ InstallCallsMade = <<>>

\* C4 witness: one requested extension was installed already, another was
\* not, and the stage made exactly one install call.
C4_Witness ==
    /\ extRet = "True"
    /\ \E i \in 1..Len(requested) : requested[i] \in listed
    /\ Len(InstallCallsMade) = 1
    /\ InstalledNames[1] \notin listed

\* C5: a non-zero exit of the list-extensions call or of an install-extension
\* call makes the stage return False, and no editor call follows the failing
\* one.
C5_EditorFailureFailsStage ==
    (extRet # NotCalled /\ \E i \in 1..Len(EditorCallsMade) : EditorCallsMade[i].rc # 0) =>
        /\ extRet = "False"
        /\ \A i \in 1..(Len(EditorCallsMade) - 1) : EditorCallsMade[i].rc = 0

\* C6: with the IDE already on the machine (on the path, or on macOS in the
\* application folder) maybe_install_vscode returns True after no network
\* fetch and no subprocess call.
C6_InstallerIdempotent ==
    (installRet # NotCalled /\ idePresent = "present") =>
        /\ installRet = "True"
        /\ fetches = <<>>
        /\ InstallerCallsMade = <<>>

\* C7: a manifest that is not a list, is an empty list, or starts with a
\* non-string makes maybe_install_vscode return False without raising,
\* without building a download URL, fetching an artifact, writing a
\* temporary file or running an install subprocess.
ManifestRejected ==
    /\ manifest.kind = "json"
    /\ \/ manifest.value.type # "list"
       \/ manifest.value.items = <<>>
       \/ manifest.value.items[1][1] # "str"

C7_BadManifestFailsCleanly ==
    (installRet # NotCalled /\ ManifestRejected) =>
        /\ installRet = "False"
        /\ urlCalls = 0
        /\ Len(fetches) <= 1
        /\ tempfiles = <<>>
        /\ InstallerCallsMade = <<>>

\* C8: on an unsupported platform with the IDE absent the run ends in
\* failure, without an exception, before any network fetch, temporary file or
\* subprocess.
C8_UnsupportedPlatformAborts ==
    (installRet # NotCalled /\ idePresent = "absent" /\ UnsupportedPlatform) =>
        /\ installRet = "False"
        /\ pc = "done"
        /\ fetches = <<>>
        /\ tempfiles = <<>>
        /\ subprocs = <<>>

\* C9: the extension stage runs only after the installer returned True, the
\* settings merge only after the extension stage returned True; a stage that
\* fails ends the run with its failure banner and no later stage; no
\* exception leaves install_all.
C9_StagesInOrderNoException ==
    /\ extRet # NotCalled => installRet = "True"
    /\ settingsRet # NotCalled => extRet = "True"
    /\ installRet = "False" =>
          /\ pc = "done"
          /\ printed # <<>> /\ printed[Len(printed)] = "failed vscode"
          /\ extRet = NotCalled /\ settingsRet = NotCalled
    /\ extRet = "False" =>
          /\ pc = "done"
          /\ printed # <<>> /\ printed[Len(printed)] = "failed extensions"
          /\ settingsRet = NotCalled
    /\ pc # "crashed"

\* C10: once maybe_install_vscode has returned True the next vscode_cmd()
\* returns a path, every editor subprocess has a path as its first argument,
\* and a cached path, once set, is not changed by a later call in the same
\* process.
C10_CachedPathResolved ==
    /\ [](/\ (installRet = "True" /\ extRet = NotCalled) =>
                 maybe_vscode_cmd(cachedPath, onPath) # NoPath
          /\ \A i \in 1..Len(EditorCallsMade) : EditorCallsMade[i].argv[1] # NoPath)
    /\ [][(cachedPath # NoPath /\ run' = run) => cachedPath' = cachedPath]_vars

====
